---- MODULE Spec2Model ----
(***************************************************************************)
(* Verticalization engine of lcpcli (src/lcpcli/parsers/_parser.py).       *)
(* One Parser object, one call of generate_upload_files_generator, split  *)
(* into the steps of its loop, followed by close_upload_files.             *)
(***************************************************************************)
EXTENDS Integers, Sequences, FiniteSets, TLC

\* ------------------------------------------------------------------ bounds
\* Number of (segment, doc) pairs the input generator yields at most.
MaxPairs == 2
\* Number of tokens consumed over the whole run at most.
MaxTokens == 3

\* ------------------------------------------------------- the record model
\* Forms the upstream parser can put on a token, with their lengths
\* (len(token.attributes["form"].value)).
FormLen == [f \in {"a", "ab", "Hello", "World"} |->
              CASE f = "a" -> 1 [] f = "ab" -> 2 [] OTHER -> 5]

\* An optional value is <<>> (absent) or <<v>> (present).
Has(o) == o # <<>>
Val(o) == o[1]

\* Kinds of corpus handed to the engine: which features the records carry.
Kinds == {"text", "docs", "aligned", "labels", "deps", "trees", "frames", "cat", "typed",
          "segs", "media"}

\* aligned_entities mapping passed to the run: {"ne": ...} or {}.
AlignedEntities(k) == IF k \in {"aligned", "labels", "typed"} THEN {"ne"} ELSE {}

\* aligned_entities_segment: the segment attributes that are keys of an
\* aligned entity.
AlignedEntitiesSegment(k) == IF k = "segs" THEN {"ne"} ELSE {}

\* The values of the attribute "ne" of a segment (<<>>: the segment does not
\* carry the attribute).
SegmentAttributes(k) ==
  IF k = "segs" THEN {<<>>, <<"E1">>, <<"E2">>, <<"dummy">>} ELSE {<<>>}

\* The value of a Text attribute is <<v>>; that of an attribute the upstream
\* parser made a Categorical although it is named like an aligned entity is
\* <<v, "Categorical">>.
Categorical(v) == <<v, "Categorical">>
IsText(o) == Len(o) = 1

Tok(f, sa, ne, hd, fr) ==
  [form |-> f, sa |-> sa, ne |-> ne, head |-> hd, frame |-> fr, xpos |-> <<>>]

\* A token with a Categorical attribute xpos (absent when xp is <<>>).
TokX(f, sa, xp) == [Tok(f, sa, <<>>, <<>>, <<>>) EXCEPT !.xpos = xp]

\* Token alphabets.  head: <<0>> is the empty head id (a root), <<k>> the id
\* of the k-th token of the segment.
TokensOf(k) ==
  CASE k = "text" ->
         { Tok("a", sa, <<>>, <<>>, <<>>) : sa \in BOOLEAN }
         \cup { Tok("Hello", TRUE, <<>>, <<>>, <<>>), Tok("World", FALSE, <<>>, <<>>, <<>>) }
    [] k = "docs" ->
         { Tok("a", sa, <<>>, <<>>, <<>>) : sa \in BOOLEAN }
    [] k = "aligned" ->
         { Tok("a", TRUE, ne, <<>>, <<>>) : ne \in {<<>>, <<"_">>, <<"E1">>, <<"E2">>} }
         \cup { Tok("a", FALSE, <<"E1">>, <<>>, <<>>) }
    [] k = "labels" ->
         { Tok("a", TRUE, ne, <<>>, <<>>) : ne \in {<<"E1">>, <<"E2">>} }
    [] k = "deps" ->
         { Tok("a", TRUE, <<>>, hd, <<>>) : hd \in {<<>>, <<0>>, <<1>>, <<2>>} }
    [] k = "trees" ->
         { Tok("a", TRUE, <<>>, hd, <<>>) : hd \in {<<0>>, <<1>>, <<2>>} }
    [] k = "frames" ->
         { Tok("a", TRUE, <<>>, <<>>, fr) : fr \in {<<>>, <<0, 2>>, <<2, 2>>} }
    [] k = "cat" ->
         { TokX("a", TRUE, xp) : xp \in {<<>>, <<"N">>, <<"V">>} }
    [] k = "typed" ->
         { Tok("a", TRUE, ne, <<>>, <<>>) : ne \in {<<"E1">>, Categorical("E1"), Categorical("E2")} }
    [] k = "segs" ->
         { Tok("a", TRUE, <<>>, <<>>, <<>>) }
    [] k = "media" ->
         { Tok("a", TRUE, <<>>, <<>>, fr) : fr \in {<<0, 2>>, <<1, 3>>} }

\* Documents the generator can attach to a pair ("none": the pair has none).
DocsOf(k) ==
  CASE k = "docs" -> {"none", "d1", "d2"}
    [] k = "frames" -> {"none", "d1"}
    [] k = "media" -> {"d1", "d2"}
    [] OTHER -> {"none"}
DocIds == {"d1", "d2"}

\* ---------------------------------------------------------- output fields
Num(v) == [t |-> "num", v |-> v]
Str(v) == [t |-> "str", v |-> v]
Name(v) == [t |-> "name", v |-> v]
Range(lo, hi) == [t |-> "range", lo |-> lo, hi |-> hi]
Cat(v) == [t |-> "cat", v |-> v]

IsHeader(line) == Len(line) > 0 /\ line[1].t = "name"

RECURSIVE Concat(_)
Concat(ss) == IF ss = <<>> THEN <<>> ELSE Head(ss) \o Concat(Tail(ss))

\* ------------------------------------------------------------------ state
VARIABLES
  kind,                      \* the kind of corpus of this run (an input)
  layout,                    \* the layout of the aligned-entity reference file (an input)
  tok_layer,                 \* config["firstClass"]["token"], the token layer's name (an input)
  attr_values,               \* the "values" lists of the layers' categorical attributes
  pc,                        \* position in generate_upload_files_generator
  npairs, ntokens,           \* pairs yielded / tokens consumed so far
  segment, doc, tok_i,       \* the pair being processed, the next token of it
  seg_ne,                    \* segment.attributes.get("ne"): its value, <<>> if absent
  char_range_cur,            \* self.char_range_cur
  frame_range_cur,           \* self.frame_range_cur
  char_range_start,          \* local of the run, line 436
  char_range_segment_start,  \* local of the iteration, line 443
  frame_range_segment_start, \* local of the iteration, line 444 (<<>> is None)
  has_frame_range,           \* local of the run, line 437
  offset_frame_range,        \* local of the run, line 438
  current_document,          \* "none" or the id of a Document object
  docs,                      \* the Document objects' mutable fields
  document_table, segment_table, token_table,
  lookup,                    \* the token_form LookupTable
  aligned_table,             \* self._tables["ne"]
  deps_table,                \* self._tables["head"]
  fts_table                  \* self._tables["fts_vector"]

vars == << kind, layout, tok_layer, attr_values, pc, npairs, ntokens, segment, doc, tok_i,
           seg_ne,
           char_range_cur, frame_range_cur, char_range_start,
           char_range_segment_start, frame_range_segment_start,
           has_frame_range, offset_frame_range, current_document, docs,
           document_table, segment_table, token_table, lookup,
           aligned_table, deps_table, fts_table >>

\* Keys of the aligned-entity reference file (aligned_entities["ne"]["fn"],
\* aligned_entities_segment["ne"]["fn"]); the file of the segment-level
\* entity also holds an entity whose key is the word "dummy".
RefKeys ==
  IF "ne" \in AlignedEntitiesSegment(kind) THEN {"E1", "E2", "dummy"} ELSE {"E1", "E2"}

\* Variant of token_have_dependencies with the assignment of line 539 in
\* force: true once a Dependency attribute has been processed.
TokenHaveDependenciesSet == deps_table.exists

\* token_have_dependencies is set once to False and never again (its only
\* other assignment is commented out).
token_have_dependencies == FALSE

\* A Table as the utilities create it: no line written, cursor 1.
NewTable == [lines |-> <<>>, cursor |-> 1]

\* The segment table; `nes` is a history field, the value of the attribute
\* "ne" of the segment of each row written.
NewSegmentTable == [lines |-> <<>>, cursor |-> 1, nes |-> <<>>]

Write(tab, line) == [tab EXCEPT !.lines = Append(@, line)]

DataLines(tab) == SelectSeq(tab.lines, LAMBDA l : ~IsHeader(l))
HeaderLines(tab) == SelectSeq(tab.lines, IsHeader)

\* The first range field of a line is its char_range, the second its
\* frame_range.
RangeFields(line) == SelectSeq(line, LAMBDA f : f.t = "range")
CharRange(line) == RangeFields(line)[1]

\* ------------------------------------------------------ upload_new_doc
\* A Document object: char_range_start, frame_range [start, end]; `segs` is
\* a history field, the ids of the segments consumed while it was current.
NewDocument == [char_range_start |-> 0, frame_range |-> <<0, 0>>, segs |-> {}]

\* Off-by-one variant of DocHigh: the cursor itself as the upper bound.
DocHighAtCursor(cur) == cur

\* Line 118: the upper bound of a document row.
DocHigh(cur) == cur - 1

\* Variant of UploadNewDoc that leaves the table's cursor where it was.
UploadNewDocCursorKept(d, table, cur) ==
  LET cols == <<Num(table.cursor), Range(d.char_range_start, DocHigh(cur))>>
      t1 == IF table.cursor = 1
            THEN Write(table, <<Name("document_id"), Name("char_range")>>)
            ELSE table
  IN  [Write(t1, cols) EXCEPT !.segs = Append(@, d.segs)]

UploadNewDoc(d, table, cur) ==
  LET with_frame == d.frame_range[2] # 0
      col_names == <<Name("document_id"), Name("char_range")>>
                   \o (IF with_frame THEN <<Name("frame_range")>> ELSE <<>>)
      cols == <<Num(table.cursor), Range(d.char_range_start, DocHigh(cur))>>
              \o (IF with_frame
                  THEN <<Range(d.frame_range[1], d.frame_range[2])>> ELSE <<>>)
      t1 == IF table.cursor = 1 THEN Write(table, col_names) ELSE table
      t2 == Write(t1, cols)
  IN  [t2 EXCEPT !.cursor = @ + 1,
                 !.segs = Append(@, d.segs)]

\* The document table also keeps, per row written, the history field of the row's document.
NewDocumentTable == [lines |-> <<>>, cursor |-> 1, segs |-> <<>>]

\* ------------------------------------------------------- aligned_entity
\* Column names and cell texts of the aligned-entity table are sequences of
\* characters, so that startswith and len can be computed on them.
StartsWith(c, p) == Len(p) <= Len(c) /\ SubSeq(c, 1, Len(p)) = p

c_ne_id == <<"n", "e", "_", "i", "d">>
c_tag == <<"t", "a", "g">>
c_tags == <<"t", "a", "g", "s">>
c_tagset == <<"t", "a", "g", "s", "e", "t">>
c_kinds == <<"k", "i", "n", "d", "s">>
c_char_range == <<"c", "h", "a", "r", "_", "r", "a", "n", "g", "e">>
c_name == <<"n", "a", "m", "e">>

\* Layouts of the reference file and of the layer's declared attributes
\* (self.config["layer"]["ne"]["attributes"], an ordered mapping).  A cell of
\* a labels column is the list of its comma-separated labels; any other
\* cell is its text.
Layouts == {"simple", "prefix", "nocol", "text"}

FileCols(l) ==
  CASE l = "simple" -> <<c_tags>>
    [] l = "prefix" -> <<c_tag, c_tagset>>
    [] l = "nocol"  -> <<c_tags>>
    [] l = "text"   -> <<c_name>>

LayerAttributes(l) ==
  CASE l = "simple" -> << [name |-> c_tags, type |-> "labels"] >>
    [] l = "prefix" -> << [name |-> c_tag, type |-> "labels"],
                          [name |-> c_tagset, type |-> "categorical"] >>
    [] l = "nocol"  -> << [name |-> c_kinds, type |-> "labels"],
                          [name |-> c_tags, type |-> "labels"] >>
    [] l = "text"   -> << [name |-> c_name, type |-> "text"] >>

TypeOf(l, col_name) ==
  LET m == { i \in DOMAIN LayerAttributes(l) : LayerAttributes(l)[i].name = col_name }
  IN  IF m = {} THEN "" ELSE LayerAttributes(l)[CHOOSE i \in m : TRUE].type

FileLabels(fk) == IF fk = "E1" THEN <<"x", "y">> ELSE <<"y", "z">>

\* The cell of a text column.
FileText(fk) == IF fk = "E1" THEN <<"p">> ELSE <<"q">>

FileRow(l, fk) ==
  CASE l = "prefix" -> << FileLabels(fk), <<"s", "1">> >>
    [] l = "text"   -> << FileText(fk) >>
    [] OTHER        -> << FileLabels(fk) >>

Bits(v) == [t |-> "bits", v |-> v]

Max(a, b) == IF a >= b THEN a ELSE b
SetMax(S) == CHOOSE x \in S : \A y \in S : y <= x

IndexOf(seq, x) == CHOOSE i \in DOMAIN seq : seq[i] = x
SeqSet(seq) == { seq[i] : i \in DOMAIN seq }
Contains(seq, x) == \E i \in DOMAIN seq : seq[i] = x

\* LookupTable.get_id: ids 1, 2, ... in first-seen order.
GetIdTable(lk, text) == IF Contains(lk, text) THEN lk ELSE Append(lk, text)
GetId(lk, text) == IndexOf(GetIdTable(lk, text), text)

\* bs = "1" + "".join(["0" for _ in range(idx - 1)]); int(bs, 2) is 2 to the
\* power len(bs) - 1.
BsExponent(idx) == (1 + Max(idx - 1, 0)) - 1

\* The label loop of lines 274-280 over one cell.  lbls is table.labels as
\* the sequence of its keys, the label of index i at position i + 1; bits is
\* the integer as the set of the exponents of its binary digits that are 1.
RECURSIVE PackLabels(_, _, _)
PackLabels(lbls, bits, cell) ==
  IF cell = <<>> THEN [lbls |-> lbls, bits |-> bits]
  ELSE LET l == Head(cell)
           idx == IF Contains(lbls, l) THEN IndexOf(lbls, l) - 1 ELSE Len(lbls)
           lbls1 == IF Contains(lbls, l) THEN lbls ELSE Append(lbls, l)
       IN  PackLabels(lbls1, bits \cup {BsExponent(idx)}, Tail(cell))

\* bin(bits)[2:] as the sequence of its digits.
Bin(bits) ==
  IF bits = {} THEN <<0>>
  ELSE LET n == SetMax(bits) + 1
       IN  [i \in 1..n |-> IF (n - i) \in bits THEN 1 ELSE 0]

\* Lines 268-281: every labels-typed column of the entity is bit-packed.
RECURSIVE PackCols(_, _, _, _)
PackCols(l, lbls, cells, n) ==
  IF n > Len(cells) THEN [lbls |-> lbls, cols |-> <<>>]
  ELSE IF TypeOf(l, FileCols(l)[n]) = "labels"
       THEN LET p == PackLabels(lbls, {}, cells[n])
                r == PackCols(l, p.lbls, cells, n + 1)
            IN  [lbls |-> r.lbls, cols |-> <<Bits(Bin(p.bits))>> \o r.cols]
       ELSE LET r == PackCols(l, lbls, cells, n + 1)
            IN  [lbls |-> r.lbls,
                 cols |-> <<IF TypeOf(l, FileCols(l)[n]) = "text"
                            THEN cells[n] ELSE Str(cells[n])>> \o r.cols]

\* Lines 315-334: the cells of the entity's line of the file as kept in
\* ce["cols"]; the cell of a text column is replaced by its id in the
\* column's lookup table lk.
RECURSIVE ReadCols(_, _, _, _)
ReadCols(l, lk, cells, n) ==
  IF n > Len(cells) THEN [lk |-> lk, cols |-> <<>>]
  ELSE IF TypeOf(l, FileCols(l)[n]) = "text"
       THEN LET r == ReadCols(l, GetIdTable(lk, cells[n]), cells, n + 1)
            IN  [lk |-> r.lk, cols |-> <<Num(GetId(lk, cells[n]))>> \o r.cols]
       ELSE LET r == ReadCols(l, lk, cells, n + 1)
            IN  [lk |-> r.lk, cols |-> <<cells[n]>> \o r.cols]

\* Lines 282-284.
EntityRangeUp(range_low, cur) ==
  IF cur - 1 <= range_low THEN range_low + 1 ELSE cur - 1

\* `keys` is a history field, the key of the entity of each row written;
\* lookup is the LookupTable of the file's text column (self._tables["ne_name"]).
NewAlignedTable ==
  [exists |-> FALSE, lines |-> <<>>, cursor |-> 1,
   current_entity |-> <<>>, labels |-> <<>>, keys |-> <<>>, lookup |-> <<>>,
   categorical_values |-> {}]

\* Lines 335-338: the values the entity's line of the file adds to
\* table.categorical_values.
EntityCategoricalValues(l, cells) ==
  { <<"tagset", cells[n]>> :
      n \in { m \in DOMAIN cells : TypeOf(l, FileCols(l)[m]) = "categorical" } }

\* Lines 241-257.  The corpora modelled are not time anchored
\* (has_frame_range of aligned_entity is False): no frame_range column.
EntityHeader(l) ==
  <<Name(c_ne_id)>>
  \o [i \in DOMAIN FileCols(l) |->
        Name(IF TypeOf(l, FileCols(l)[i]) = "text"
             THEN FileCols(l)[i] \o <<"_", "i", "d">> ELSE FileCols(l)[i])]
  \o <<Name(c_char_range)>>

\* Lines 235-257: the table of the entity, created with its header by the
\* first call.
EntityTable(l, tab) ==
  IF tab.exists THEN tab
  ELSE [tab EXCEPT !.exists = TRUE, !.lines = <<EntityHeader(l)>>]

\* Lines 282-301: the row of the open entity ce, whose columns once packed
\* are p, written to t with self.char_range_cur = cur.
WriteEntity(t, ce, p, cur) ==
  [t EXCEPT
     !.lines = Append(@,
        <<Num(t.cursor)>> \o p.cols
        \o <<Range(ce.range_low, EntityRangeUp(ce.range_low, cur))>>),
     !.cursor = @ + 1,
     !.labels = p.lbls,
     !.keys = Append(@, ce.id)]

\* Lines 266-301: if an entity is open, its row is written.
FlushEntity(l, t, cur) ==
  IF Has(t.current_entity)
  THEN WriteEntity(t, Val(t.current_entity),
                   PackCols(l, t.labels, Val(t.current_entity).cols, 1), cur)
  ELSE t

\* Lines 308-340: the line of the file whose key is fk as read into
\* ce["cols"], with the lookup table of the text column; no line for a key
\* the file does not hold.
ReadEntity(l, lk, fk) ==
  IF fk \in RefKeys THEN ReadCols(l, lk, FileRow(l, fk), 1)
  ELSE [lk |-> lk, cols |-> <<>>]

\* Lines 303-343: the entity of key fk, whose line of the file was read as
\* rd, becomes table.current_entity.
SetCurrentEntity(l, t, fk, cur, rd) ==
  [t EXCEPT
     !.current_entity =
        IF fk = "" \/ fk = "_" THEN <<>>
        ELSE IF fk \in RefKeys
             THEN << [id |-> fk, found |-> TRUE,
                      cols |-> rd.cols, range_low |-> cur] >>
             ELSE << [id |-> fk, found |-> FALSE,
                      cols |-> <<>>, range_low |-> 0] >>,
     !.lookup = rd.lk,
     !.categorical_values =
        @ \cup (IF fk \in RefKeys
                THEN EntityCategoricalValues(l, FileRow(l, fk))
                ELSE {})]

\* Lines 258-343 on the table t of the entity.  The result is the table and
\* whether the call raised (KeyError on ce["cols"] when the open entity's
\* key was not found in the file).
SwitchEntity(l, t, fk, cur) ==
  IF fk = (IF Has(t.current_entity) THEN Val(t.current_entity).id ELSE "")
  THEN [tab |-> t, raised |-> FALSE]
  ELSE IF Has(t.current_entity) /\ ~Val(t.current_entity).found
  THEN [tab |-> t, raised |-> TRUE]
  ELSE [tab |-> SetCurrentEntity(l, FlushEntity(l, t, cur), fk, cur,
                                 ReadEntity(l, t.lookup, fk)),
        raised |-> FALSE]

\* aligned_entity for the attribute value fk, with self.char_range_cur = cur.
AlignedEntity(l, tab, fk, cur) == SwitchEntity(l, EntityTable(l, tab), fk, cur)

\* Lines 349-350: table.current_entity = {} once aligned_entity has returned.
ResetCurrentEntity(r) ==
  IF r.raised THEN r
  ELSE [tab |-> [r.tab EXCEPT !.current_entity = <<>>], raised |-> FALSE]

\* close_aligned_entity: the sentinel attribute Text(name, "dummy").
CloseAlignedEntity(l, tab, cur) ==
  ResetCurrentEntity(AlignedEntity(l, tab, "dummy", cur))

\* ----------------------------------------------------- write_token_deps
\* table.deps: per buffered segment, in insertion order, the entries
\* {token.id: {head_id, nested_set}} in insertion order.  head_id 0 is the
\* empty head id; cursor_id and consumed are the NestedSet's fields.
NewDepsTable ==
  [exists |-> FALSE, lines |-> <<>>, cursor |-> 1, anchor_right |-> 0,
   deps |-> <<>>]

DepsHeader == <<Name("head"), Name("dependent"), Name("udep"),
                Name("left_anchor"), Name("right_anchor")>>

Entry(toks, id) == toks[CHOOSE i \in DOMAIN toks : toks[i].id = id]
InToks(toks, id) == \E i \in DOMAIN toks : toks[i].id = id

\* The heads of a segment form a forest: no token is its own ancestor.
RECURSIVE Reaches(_, _, _, _)
Reaches(toks, from, to, fuel) ==
  /\ fuel > 0
  /\ InToks(toks, from)
  /\ LET h == Entry(toks, from).head_id
     IN  h = to \/ (h # 0 /\ Reaches(toks, h, to, fuel - 1))
Acyclic(toks) == \A i \in DOMAIN toks : ~Reaches(toks, toks[i].id, toks[i].id, Len(toks))

\* NestedSet: the children added to a node (line 175), in insertion order.
Children(toks, id) ==
  LET cs == SelectSeq(toks, LAMBDA e : e.head_id = id)
  IN  [i \in DOMAIN cs |-> cs[i].id]

\* NestedSet.all_ids: the node and its descendants, in pre-order.
RECURSIVE AllIds(_, _)
AllIds(toks, id) ==
  LET cs == Children(toks, id)
  IN  <<id>> \o Concat([i \in DOMAIN cs |-> AllIds(toks, cs[i])])

RECURSIVE Depth(_, _, _)
Depth(toks, root, id) ==
  IF id = root THEN 1 ELSE 1 + Depth(toks, root, Entry(toks, id).head_id)

\* NestedSet.compute_anchors on the tree of root: nested-set numbering, left
\* on entry and right after the children.
AnchorLeft(toks, root, id) ==
  2 * IndexOf(AllIds(toks, root), id) - Depth(toks, root, id)
AnchorRight(toks, root, id) ==
  AnchorLeft(toks, root, id) + 2 * Len(AllIds(toks, id)) - 1

\* Variant of PreviousHead that falls back on the first buffered entry when
\* no entry has an empty head id.
PreviousHeadOrFirst(toks) ==
  LET rs == SelectSeq(toks, LAMBDA e : e.head_id = 0)
  IN  IF rs = <<>> THEN (IF toks = <<>> THEN <<>> ELSE <<toks[1]>>)
      ELSE <<rs[Len(rs)]>>

\* The last entry with an empty head id (lines 168-172), <<>> if none.
PreviousHead(toks) ==
  LET rs == SelectSeq(toks, LAMBDA e : e.head_id = 0)
  IN  IF rs = <<>> THEN <<>> ELSE <<rs[Len(rs)]>>

\* Variant of DepRow with the two anchors written in each other's column.
DepRowAnchorsSwapped(toks, root, id, anchor_right) ==
  LET e == Entry(toks, id)
  IN  << IF InToks(toks, e.head_id)
           THEN Num(Entry(toks, e.head_id).cursor_id) ELSE Str(""),
         Num(e.cursor_id),
         Str("dep"),
         Num(anchor_right + AnchorRight(toks, root, id)),
         Num(anchor_right + AnchorLeft(toks, root, id)) >>

DepRow(toks, root, id, anchor_right) ==
  LET e == Entry(toks, id)
  IN  << IF InToks(toks, e.head_id)
           THEN Num(Entry(toks, e.head_id).cursor_id) ELSE Str(""),
         Num(e.cursor_id),
         Str("dep"),
         Num(anchor_right + AnchorLeft(toks, root, id)),
         Num(anchor_right + AnchorRight(toks, root, id)) >>

\* Variant of AnchorRightAfter that leaves the cursor where it was.
AnchorRightKept(anchor_right, right) == anchor_right

\* Line 205: table.anchor_right once a tree whose root's right is `right`
\* has been written.
AnchorRightAfter(anchor_right, right) == anchor_right + right

\* The body of the loop of write_token_deps for one buffered segment.
\* kept: whether the segment key stays in table.deps.
WriteSegmentDeps(tab, buf) ==
  LET toks == buf.toks
      ph == PreviousHead(toks)
  IN  IF ph = <<>> \/ Val(ph).consumed
      THEN [tab |-> tab, buf |-> buf, kept |-> TRUE]
      ELSE
        LET root == Val(ph).id
            ids == AllIds(toks, root)
            fresh == SelectSeq(ids, LAMBDA id : ~Entry(toks, id).consumed)
            rows == [i \in DOMAIN fresh |-> DepRow(toks, root, fresh[i], tab.anchor_right)]
            toks1 == [i \in DOMAIN toks |->
                        IF Contains(ids, toks[i].id)
                        THEN [toks[i] EXCEPT !.consumed = TRUE] ELSE toks[i]]
        IN  [tab |-> [tab EXCEPT !.lines = @ \o rows,
                                 !.anchor_right =
                                    AnchorRightAfter(@, AnchorRight(toks, root, root))],
             buf |-> [buf EXCEPT !.toks = toks1],
             kept |-> \E i \in DOMAIN toks : ~Contains(ids, toks[i].id)]

\* write_token_deps(table, working_on): working_on is a segment id, or 0
\* for the default "".
RECURSIVE WriteDepsFrom(_, _, _)
WriteDepsFrom(tab, bufs, working_on) ==
  IF bufs = <<>> THEN [tab EXCEPT !.deps = <<>>]
  ELSE LET b == Head(bufs)
       IN  IF b.seg = working_on
           THEN LET r == WriteDepsFrom(tab, Tail(bufs), working_on)
                IN  [r EXCEPT !.deps = <<b>> \o @]
           ELSE LET w == WriteSegmentDeps(tab, b)
                    r == WriteDepsFrom(w.tab, Tail(bufs), working_on)
                IN  [r EXCEPT !.deps = (IF w.kept THEN <<w.buf>> ELSE <<>>) \o @]

WriteTokenDeps(tab, working_on) == WriteDepsFrom(tab, tab.deps, working_on)

\* Variant of BufferDependency that gives the NestedSet the token's id
\* within its segment as its row id.
BufferDependencyTokenId(tab, seg_id, token_id, head_id, token_cursor) ==
  LET t0 == IF tab.exists THEN tab
            ELSE [tab EXCEPT !.exists = TRUE, !.lines = <<DepsHeader>>]
      t1 == IF \E i \in DOMAIN t0.deps : t0.deps[i].seg = seg_id THEN t0
            ELSE [t0 EXCEPT !.deps = Append(@, [seg |-> seg_id, toks |-> <<>>])]
      t2 == IF head_id = 0 THEN WriteTokenDeps(t1, seg_id) ELSE t1
      e == [id |-> token_id, head_id |-> head_id,
            cursor_id |-> token_id, consumed |-> FALSE]
  IN  [t2 EXCEPT
         !.deps = [i \in DOMAIN @ |->
                     IF @[i].seg = seg_id
                     THEN [@[i] EXCEPT !.toks = Append(@, e)] ELSE @[i]],
         !.cursor = @ + 1]

\* Lines 538-570: a token carrying a Dependency attribute.
BufferDependency(tab, seg_id, token_id, head_id, token_cursor) ==
  LET t0 == IF tab.exists THEN tab
            ELSE [tab EXCEPT !.exists = TRUE, !.lines = <<DepsHeader>>]
      t1 == IF \E i \in DOMAIN t0.deps : t0.deps[i].seg = seg_id THEN t0
            ELSE [t0 EXCEPT !.deps = Append(@, [seg |-> seg_id, toks |-> <<>>])]
      t2 == IF head_id = 0 THEN WriteTokenDeps(t1, seg_id) ELSE t1
      e == [id |-> token_id, head_id |-> head_id,
            cursor_id |-> token_cursor, consumed |-> FALSE]
  IN  [t2 EXCEPT
         !.deps = [i \in DOMAIN @ |->
                     IF @[i].seg = seg_id
                     THEN [@[i] EXCEPT !.toks = Append(@, e)] ELSE @[i]],
         !.cursor = @ + 1]

\* ------------------------------------------------ the token-table schema
\* token.attributes, in the order the upstream parser fills it.
AttrOrder == <<"form", "xpos", "ne", "head">>

Attr(tok, a) ==
  CASE a = "form" -> <<tok.form>>
    [] a = "xpos" -> tok.xpos
    [] a = "ne"   -> tok.ne
    [] a = "head" -> tok.head

IsDependency(a) == a = "head"
IsCategorical(a) == a = "xpos"

\* attr_value.value is truthy: a non-empty string.  0 is the empty head id.
NonNull(tok, a) ==
  /\ Has(Attr(tok, a))
  /\ Val(Attr(tok, a)) # (IF a = "head" THEN 0 ELSE "")

RECURSIVE AddNew(_, _)
AddNew(seq, xs) ==
  IF xs = <<>> THEN seq
  ELSE AddNew(IF Contains(seq, Head(xs)) THEN seq ELSE Append(seq, Head(xs)), Tail(xs))

\* Variant of NonNullAttributes that scans the first token only.
NonNullAttributesOfFirstToken(acc, toks) ==
  IF toks = <<>> THEN acc
  ELSE SelectSeq(AttrOrder, LAMBDA a : NonNull(Head(toks), a))

\* Lines 465-471: the attributes that are non-null on a token of the segment,
\* in first-seen order.
RECURSIVE NonNullAttributes(_, _)
NonNullAttributes(acc, toks) ==
  IF toks = <<>> THEN acc
  ELSE NonNullAttributes(
         AddNew(acc, SelectSeq(AttrOrder, LAMBDA a : NonNull(Head(toks), a))),
         Tail(toks))

\* Lines 464-487: the header of the token table.
TokenHeader(k, schema, with_frame) ==
  <<Name("token_id")>>
  \o Concat([i \in DOMAIN schema |->
       IF IsDependency(schema[i]) \/ schema[i] \in AlignedEntities(k) THEN <<>>
       ELSE IF IsCategorical(schema[i]) THEN <<Name(schema[i])>>
       ELSE <<Name(schema[i] \o "_id")>>])
  \o <<Name("char_range")>>
  \o (IF with_frame THEN <<Name("frame_range")>> ELSE <<>>)
  \o <<Name("segment_id")>>

\* Variant of AttributeCols that gives every text a fresh id, as if no
\* string had been seen before.
AttributeColsFreshId(k, lk, tok, a) ==
  IF ~Has(Attr(tok, a)) THEN <<Str("")>>
  ELSE IF a \in AlignedEntities(k) /\ IsText(Attr(tok, a)) THEN <<>>
  ELSE IF IsCategorical(a) \/ ~IsText(Attr(tok, a)) THEN <<Cat(Val(Attr(tok, a)))>>
  ELSE IF IsDependency(a) THEN <<>>
  ELSE <<Num(Len(lk) + 1)>>

\* Lines 498-570: the fields the loop over non_null_attributes appends to
\* cols for one attribute of the frozen schema.
AttributeCols(k, lk, tok, a) ==
  IF ~Has(Attr(tok, a)) THEN <<Str("")>>
  ELSE IF a \in AlignedEntities(k) /\ IsText(Attr(tok, a)) THEN <<>>
  ELSE IF IsCategorical(a) \/ ~IsText(Attr(tok, a)) THEN <<Cat(Val(Attr(tok, a)))>>
  ELSE IF IsDependency(a) THEN <<>>
  ELSE <<Num(GetId(lk, Val(Attr(tok, a))))>>

\* Variant of TokenHigh that ignores spaceAfter.
TokenHighIgnoringSpaceAfter(left, tok) == left + FormLen[tok.form]

\* Lines 578-583: the upper bound written for a token whose range starts at
\* left.
TokenHigh(left, tok) == left + FormLen[tok.form] - (IF tok.sa THEN 0 ELSE 1)

\* Lines 586-590.
TokenFrame(tok, offset) ==
  LET l == tok.frame[1] + offset
      r == tok.frame[2] + offset
  IN  <<l, IF r <= l THEN l + 1 ELSE r>>

InSchema(a) == Contains(token_table.non_null_attributes, a)

\* The TokenTable; `toks` is a history field, the token of each row written.
\* categorical_values: the (attribute name, value) pairs recorded.
NewTokenTable ==
  [lines |-> <<>>, cursor |-> 1, non_null_attributes |-> <<>>, toks |-> <<>>,
   categorical_values |-> {}]

\* Lines 511-517: the values a token adds to token_table.categorical_values.
TokenCategoricalValues(schema, tok) ==
  { <<a, Val(Attr(tok, a))>> :
      a \in { x \in SeqSet(schema) :
                Has(Attr(tok, x))
                /\ (IsCategorical(x) \/ (~IsDependency(x) /\ ~IsText(Attr(tok, x)))) } }

\* ---------------------------------------------------------------- inputs
\* The segments the generator can yield with n tokens left; <<>> is an
\* empty (falsy) segment.
HeadEntries(seg) ==
  SelectSeq([i \in DOMAIN seg |->
               [id |-> i, has |-> Has(seg[i].head),
                head_id |-> IF Has(seg[i].head) THEN Val(seg[i].head) ELSE 0]],
            LAMBDA e : e.has)

SegmentsOf(k, n) ==
  { seg \in UNION { [1..m -> TokensOf(k)] : m \in 0..n } : Acyclic(HeadEntries(seg)) }

\* The tokens a run consumes at most: a dependency chain of three tokens is
\* written only when a later segment brings a further root.
TokenBudget(k) == IF k = "trees" THEN MaxTokens + 1 ELSE MaxTokens

\* The pairs the generator yields at most: the tree of a second segment is
\* written only when a third segment brings a further root.
PairBudget(k) == IF k = "trees" THEN MaxPairs + 1 ELSE MaxPairs

\* The names config["firstClass"] can give the token layer.
TokenLayerNames == {"Token", "Word"}

\* The "values" lists of the schema before the run: of xpos on the token
\* layer, of tagset on the layer of the aligned entity.
InitialValues == [token |-> <<"A", "V">>, ne |-> <<>>]

\* ------------------------------------------------------------------ Init
Init ==
  /\ kind \in Kinds
  /\ layout \in (IF kind = "labels" THEN Layouts ELSE {"simple"})
  /\ tok_layer \in (IF kind = "cat" THEN TokenLayerNames ELSE {"Token"})
  /\ attr_values = InitialValues
  /\ pc = "idle"
  /\ npairs = 0
  /\ ntokens = 0
  /\ segment = <<>>
  /\ seg_ne = <<>>
  /\ doc = "none"
  /\ tok_i = 1
  /\ char_range_cur = 1
  /\ frame_range_cur = 0
  /\ char_range_start = 1
  /\ char_range_segment_start = 1
  /\ frame_range_segment_start = <<>>
  /\ has_frame_range = FALSE
  /\ offset_frame_range = 0
  /\ current_document = "none"
  /\ docs = [d \in DocIds |-> NewDocument]
  /\ document_table = NewDocumentTable
  /\ segment_table = NewSegmentTable
  /\ token_table = NewTokenTable
  /\ lookup = <<>>
  /\ aligned_table = NewAlignedTable
  /\ deps_table = NewDepsTable
  /\ fts_table = NewTable

\* --------------------------------------- generate_upload_files_generator
\* Lines 441-495: the generator yields (seg, d); document bookkeeping and,
\* on the first non-empty segment, the freezing of the token-table schema.
NextPair(seg, d) ==
  /\ pc = "idle"
  /\ npairs < PairBudget(kind)
  /\ npairs' = npairs + 1
  /\ segment' = seg
  /\ seg_ne' \in (IF seg = <<>> THEN {<<>>} ELSE SegmentAttributes(kind))
  /\ doc' = d
  /\ tok_i' = 1
  /\ char_range_segment_start' = char_range_cur
  /\ frame_range_segment_start' = <<>>
  /\ IF d # "none" /\ current_document # d
     THEN /\ document_table' =
               IF current_document # "none"
               THEN UploadNewDoc(docs[current_document], document_table, char_range_cur)
               ELSE document_table
          /\ current_document' = d
          /\ docs' = [docs EXCEPT ![d] =
                        [char_range_start |-> char_range_cur,
                         frame_range |-> <<offset_frame_range, @.frame_range[2]>>,
                         segs |-> {}]]
     ELSE UNCHANGED <<document_table, current_document, docs>>
  /\ IF seg # <<>> /\ token_table.non_null_attributes = <<>> /\ token_table.cursor = 1
     THEN LET with_frame == \E i \in DOMAIN seg : Has(seg[i].frame)
              schema == NonNullAttributes(<<>>, seg)
          IN  /\ has_frame_range' = (has_frame_range \/ with_frame)
              /\ token_table' =
                   [token_table EXCEPT
                      !.non_null_attributes = schema,
                      !.lines = Append(@, TokenHeader(kind, schema, has_frame_range'))]
     ELSE UNCHANGED <<has_frame_range, token_table>>
  /\ pc' = IF seg = <<>> THEN "idle" ELSE "token"
  /\ UNCHANGED <<kind, layout, tok_layer, attr_values, ntokens, char_range_cur, frame_range_cur,
                 char_range_start, offset_frame_range, segment_table, lookup,
                 aligned_table, deps_table, fts_table>>

\* Lines 496-603: one iteration of the loop over segment.tokens.
ProcessToken ==
  /\ pc = "token"
  /\ LET tok == segment[tok_i]
         seg_id == segment_table.cursor
         schema == token_table.non_null_attributes
         left_char_range == char_range_cur
         a1 == IF "ne" \in AlignedEntities(kind) /\ InSchema("ne") /\ Has(tok.ne)
                  /\ IsText(tok.ne)
               THEN AlignedEntity(layout, aligned_table, Val(tok.ne), char_range_cur)
               ELSE [tab |-> aligned_table, raised |-> FALSE]
         a2 == IF "ne" \in AlignedEntities(kind) /\ ~InSchema("ne") /\ ~a1.raised
               THEN CloseAlignedEntity(layout, a1.tab, char_range_cur)
               ELSE a1
         attr_cols == Concat([i \in DOMAIN schema |->
                                AttributeCols(kind, lookup, tok, schema[i])])
         frame_cols == IF Has(tok.frame)
                       THEN LET f == TokenFrame(tok, offset_frame_range)
                            IN  <<Range(f[1], f[2])>>
                       ELSE <<>>
         cols == <<Num(token_table.cursor)>> \o attr_cols
                 \o <<Range(left_char_range, TokenHigh(left_char_range, tok))>>
                 \o frame_cols \o <<Num(seg_id)>>
     IN  IF a2.raised
         THEN /\ pc' = "KeyError"
              /\ UNCHANGED <<ntokens, tok_i, char_range_cur, frame_range_cur,
                             frame_range_segment_start, has_frame_range, docs,
                             token_table, lookup, aligned_table, deps_table>>
         ELSE /\ aligned_table' = a2.tab
              /\ lookup' = IF InSchema("form") THEN GetIdTable(lookup, tok.form) ELSE lookup
              /\ deps_table' =
                   IF InSchema("head") /\ Has(tok.head)
                   THEN BufferDependency(deps_table, seg_id, tok_i, Val(tok.head),
                                         token_table.cursor)
                   ELSE deps_table
              /\ char_range_cur' = TokenHigh(left_char_range, tok) + 1
              /\ IF Has(tok.frame)
                 THEN /\ has_frame_range' = TRUE
                      /\ docs' = IF current_document # "none"
                                 THEN [docs EXCEPT ![current_document].frame_range[2] =
                                         offset_frame_range + tok.frame[2]]
                                 ELSE docs
                      /\ frame_range_segment_start' =
                           IF frame_range_segment_start = <<>>
                           THEN <<offset_frame_range + tok.frame[1]>>
                           ELSE frame_range_segment_start
                      /\ frame_range_cur' = TokenFrame(tok, offset_frame_range)[2]
                 ELSE UNCHANGED <<has_frame_range, docs, frame_range_segment_start,
                                  frame_range_cur>>
              /\ token_table' = [Write(token_table, cols) EXCEPT
                                    !.cursor = @ + 1, !.toks = Append(@, tok),
                                    !.categorical_values =
                                       @ \cup TokenCategoricalValues(schema, tok)]
              /\ ntokens' = ntokens + 1
              /\ tok_i' = tok_i + 1
              /\ pc' = IF tok_i = Len(segment) THEN "segend" ELSE "token"
  /\ UNCHANGED <<kind, layout, tok_layer, attr_values, npairs, segment, seg_ne, doc,
                 char_range_start,
                 char_range_segment_start, offset_frame_range, current_document,
                 document_table, segment_table, fts_table>>

\* Lines 657-674: the lexemes of the FTS vector of a segment.
TokenLexemes(k, schema, tok, n) ==
  LET attributes_to_fts ==
        Concat([i \in DOMAIN schema |->
          LET an == schema[i]
              a == [name |-> an, value |-> Attr(tok, an)]
          IN  IF IsDependency(an) THEN <<a, a>>
              ELSE IF an \notin AlignedEntities(k) THEN <<a>>
              ELSE <<>>])
  IN  [i \in DOMAIN attributes_to_fts |->
         [rank |-> i, attr |-> attributes_to_fts[i].name,
          value |-> attributes_to_fts[i].value, pos |-> n]]

FtsVector(k, schema, seg) ==
  Concat([n \in DOMAIN seg |-> TokenLexemes(k, schema, seg[n], n)])

\* Line 661: token.attributes[an] raises KeyError for an attribute of the
\* frozen schema the token does not carry.
FtsRaises(schema, seg) ==
  \E n \in DOMAIN seg : \E i \in DOMAIN schema : ~Has(Attr(seg[n], schema[i]))

\* Off-by-one variant of SegmentHigh: the cursor itself as the upper bound.
SegmentHighAtCursor(cur) == cur

\* Line 619: the upper bound of a segment row.
SegmentHigh(cur) == cur - 1

\* Lines 627-645: the segment's attribute that is the key of an aligned
\* entity is handed to aligned_entity; a segment without it closes the
\* pending entity.
SegmentEntity(k, l, tab, sne, cur) ==
  IF "ne" \notin AlignedEntitiesSegment(k) THEN [tab |-> tab, raised |-> FALSE]
  ELSE IF Has(sne) THEN AlignedEntity(l, tab, Val(sne), cur)
  ELSE CloseAlignedEntity(l, tab, cur)

\* Lines 605-679: after the tokens of a segment, the segment row and the
\* FTS row.
EndSegment ==
  /\ pc = "segend"
  /\ LET seg_id == segment_table.cursor
         schema == token_table.non_null_attributes
         col_names == <<Name("segment_id"), Name("char_range")>>
                      \o (IF has_frame_range THEN <<Name("frame_range")>> ELSE <<>>)
         t0 == IF HeaderLines(segment_table) = <<>>
               THEN Write(segment_table, col_names) ELSE segment_table
         frame_end == IF frame_range_segment_start # <<>>
                         /\ frame_range_cur <= Val(frame_range_segment_start)
                      THEN Val(frame_range_segment_start) + 1
                      ELSE frame_range_cur
         cols == <<Num(seg_id),
                   Range(char_range_segment_start, SegmentHigh(char_range_cur))>>
                 \o (IF has_frame_range
                     THEN <<Range(Val(frame_range_segment_start), frame_end)>>
                     ELSE <<>>)
         f0 == IF fts_table.cursor = 1
               THEN Write(fts_table, <<Name("segment_id"), Name("vector")>>)
               ELSE fts_table
         ae == SegmentEntity(kind, layout, aligned_table, seg_ne, char_range_cur)
     IN  IF has_frame_range /\ frame_range_segment_start = <<>>
         THEN /\ pc' = "TypeError"
              /\ segment_table' = t0
              /\ UNCHANGED <<fts_table, docs, aligned_table>>
         ELSE IF ae.raised
         THEN /\ pc' = "KeyError"
              /\ segment_table' = t0
              /\ UNCHANGED <<fts_table, docs, aligned_table>>
         ELSE /\ segment_table' = [Write(t0, cols) EXCEPT !.cursor = @ + 1,
                                                          !.nes = Append(@, seg_ne)]
              /\ aligned_table' = ae.tab
              /\ docs' = IF current_document # "none"
                         THEN [docs EXCEPT ![current_document].segs = @ \cup {seg_id}]
                         ELSE docs
              /\ IF token_have_dependencies
                 THEN /\ pc' = "idle"
                      /\ UNCHANGED fts_table
                 ELSE IF FtsRaises(schema, segment)
                 THEN /\ pc' = "KeyError"
                      /\ UNCHANGED fts_table
                 ELSE /\ pc' = "idle"
                      /\ fts_table' =
                           [Write(f0, <<Num(seg_id),
                                        [t |-> "vector",
                                         v |-> FtsVector(kind, schema, segment)]>>)
                            EXCEPT !.cursor = @ + 1]
  /\ UNCHANGED <<kind, layout, tok_layer, attr_values, npairs, ntokens, segment, seg_ne, doc,
                 tok_i,
                 char_range_cur, frame_range_cur, char_range_start,
                 char_range_segment_start, frame_range_segment_start,
                 has_frame_range, offset_frame_range, current_document,
                 document_table, token_table, lookup, deps_table>>

\* Lines 706-721.  config["firstClass"] maps "document", "segment" and
\* "token" to the names of the layers; config["layer"] is keyed by the names
\* of the layers.
FirstClass == [document |-> "Document", segment |-> "Segment", token |-> tok_layer]

Lower(name) ==
  CASE name = "Token" -> "token"
    [] name = "Word" -> "word"
    [] name = "Document" -> "document"
    [] name = "Segment" -> "segment"
    [] OTHER -> name

\* Line 707-709: next((v for k, v in firstClass.items() if k == l), l).lower()
TableKey(l) ==
  LET m == { k \in DOMAIN FirstClass : k = l }
  IN  Lower(IF m = {} THEN l ELSE FirstClass[CHOOSE k \in m : TRUE])

\* The keys of self._tables that hold a table with categorical values.
TableKeys(atab) ==
  {"document", "segment", "token"} \cup (IF atab.exists THEN {"ne"} ELSE {})

\* The categorical attribute declared by layer l, <<>> if none: xpos on the
\* token layer, tagset on the layer of the aligned entity (layout "prefix").
CategoricalAttribute(l) ==
  IF l = tok_layer THEN <<"xpos">>
  ELSE IF l = "ne" /\ layout = "prefix" THEN <<"tagset">>
  ELSE <<>>

\* self._tables[key].categorical_values.get(a) as a set of values.
CategoricalValues(ttab, atab, key, a) ==
  LET all == IF key = "token" THEN ttab.categorical_values
             ELSE IF key = "ne" THEN atab.categorical_values ELSE {}
  IN  { p[2] : p \in { q \in all : q[1] = a } }

\* The sequences that list every element of S once: the orders in which a
\* set can be iterated.
Orderings(S) ==
  { f \in [1..Cardinality(S) -> S] : \A i, j \in DOMAIN f : f[i] = f[j] => i = j }

\* Lines 712-721 for layer l: the values lists ap["values"] can hold
\* afterwards.
LayerValuesAfter(ttab, atab, l, vals) ==
  LET key == TableKey(l)
      a == CategoricalAttribute(l)
      seen == IF Has(a) THEN CategoricalValues(ttab, atab, key, Val(a)) ELSE {}
      new == { v \in seen : ~Contains(vals, v) }
  IN  IF key \notin TableKeys(atab) \/ seen = {} THEN {vals}
      ELSE { vals \o o : o \in Orderings(new) }

\* Lines 681-704: the end of the stream.
EndOfStream ==
  /\ pc = "idle"
  /\ LET d1 == IF token_have_dependencies /\ deps_table.deps # <<>>
               THEN WriteTokenDeps(deps_table, 0) ELSE deps_table
         a1 == IF "ne" \in AlignedEntities(kind) \cup AlignedEntitiesSegment(kind)
               THEN CloseAlignedEntity(layout, aligned_table, char_range_cur)
               ELSE [tab |-> aligned_table, raised |-> FALSE]
         last == IF current_document = "none"
                 THEN [NewDocument EXCEPT !.char_range_start = char_range_start,
                                          !.segs = 1..(segment_table.cursor - 1)]
                 ELSE docs[current_document]
     IN  /\ deps_table' = d1
         /\ IF a1.raised
            THEN /\ pc' = "KeyError"
                 /\ UNCHANGED <<aligned_table, document_table>>
                 /\ UNCHANGED attr_values
            ELSE /\ pc' = "done"
                 /\ aligned_table' = a1.tab
                 /\ document_table' = UploadNewDoc(last, document_table, char_range_cur)
                 /\ \E tv \in LayerValuesAfter(token_table, a1.tab, tok_layer, attr_values.token) :
                      \E nv \in LayerValuesAfter(token_table, a1.tab, "ne", attr_values.ne) :
                        attr_values' = [token |-> tv, ne |-> nv]
  /\ UNCHANGED <<kind, layout, tok_layer, npairs, ntokens, segment, seg_ne, doc, tok_i,
                 char_range_cur, frame_range_cur, char_range_start,
                 char_range_segment_start, frame_range_segment_start,
                 has_frame_range, offset_frame_range, current_document, docs,
                 segment_table, token_table, lookup, fts_table>>

\* ----------------------------------------------------- close_upload_files
Digits(n) == IF n < 10 THEN 1 ELSE 2

\* len() of the text of a field.
TextLen(f) ==
  CASE f.t = "num" -> Digits(f.v)
    [] f.t = "range" -> 3 + Digits(f.lo) + Digits(f.hi)
    [] f.t = "padded" -> f.len
    [] OTHER -> Len(f.v)

Zeros(n) == [i \in 1..n |-> 0]

\* Lines 394-400: a field left-padded with "0" to nlabels characters.
Pad(f, nlabels) ==
  IF TextLen(f) >= nlabels THEN f
  ELSE IF f.t = "bits" THEN Bits(Zeros(nlabels - Len(f.v)) \o f.v)
  ELSE [t |-> "padded", len |-> nlabels, f |-> f]

\* The attributes of type "labels" of the layer, lines 368-373.
LabelAttributes(l) ==
  LET la == SelectSeq(LayerAttributes(l), LAMBDA a : a.type = "labels")
  IN  [i \in DOMAIN la |-> la[i].name]

\* Lines 385-390: the column index (from 0) recorded for label attribute la
\* on a line read as the header: the last field starting with la; prev if
\* none does.
HeaderIndex(cols, la, prev) ==
  LET m == { n \in DOMAIN cols : cols[n].t = "name" /\ StartsWith(cols[n].v, la) }
  IN  IF m = {} THEN prev ELSE SetMax(m) - 1

\* cols[n] for a Python index n of -1 or more.
PyIndex(cols, n) == IF n < 0 THEN Len(cols) + 1 + n ELSE n + 1

RECURSIVE PadAt(_, _, _)
PadAt(cols, idxs, nlabels) ==
  IF idxs = <<>> THEN cols
  ELSE PadAt([cols EXCEPT ![PyIndex(cols, Head(idxs))] = Pad(@, nlabels)],
             Tail(idxs), nlabels)

\* Lines 376-401: the rewrite of the lines of a table; idxs is
\* label_attributes.values().
RECURSIVE Rewrite(_, _, _, _)
Rewrite(lines, las, idxs, nlabels) ==
  IF lines = <<>> THEN <<>>
  ELSE LET cols == Head(lines)
       IN  IF idxs[1] = -1
           THEN <<cols>> \o Rewrite(Tail(lines), las,
                                    [i \in DOMAIN las |-> HeaderIndex(cols, las[i], idxs[i])],
                                    nlabels)
           ELSE <<PadAt(cols, idxs, nlabels)>> \o Rewrite(Tail(lines), las, idxs, nlabels)

CloseTable(l, tab) ==
  IF tab.labels = <<>> \/ LabelAttributes(l) = <<>> THEN tab
  ELSE [tab EXCEPT !.lines =
          Rewrite(@, LabelAttributes(l),
                  [i \in DOMAIN LabelAttributes(l) |-> -1], Len(tab.labels))]

CloseUploadFiles ==
  /\ pc = "done"
  /\ pc' = "closed"
  /\ aligned_table' = CloseTable(layout, aligned_table)
  /\ UNCHANGED <<kind, layout, tok_layer, attr_values, npairs, ntokens, segment, seg_ne, doc,
                 tok_i,
                 char_range_cur, frame_range_cur, char_range_start,
                 char_range_segment_start, frame_range_segment_start,
                 has_frame_range, offset_frame_range, current_document, docs,
                 document_table, segment_table, token_table, lookup,
                 deps_table, fts_table>>

Next ==
  \/ \E d \in DocsOf(kind) :
       \E seg \in SegmentsOf(kind, TokenBudget(kind) - ntokens) : NextPair(seg, d)
  \/ ProcessToken
  \/ EndSegment
  \/ EndOfStream
  \/ CloseUploadFiles

Spec == Init /\ [][Next]_vars

\* ================================================================ claims
TokenLines == DataLines(token_table)
SegmentLines == DataLines(segment_table)
DocumentLines == DataLines(document_table)
AlignedLines == DataLines(aligned_table)

\* The segment id is the last field of a token row.
SegOf(line) == line[Len(line)].v
\* The rows of the tokens of segment id, in order.
TokenLinesOf(id) == SelectSeq(TokenLines, LAMBDA l : SegOf(l) = id)

Hello == Tok("Hello", TRUE, <<>>, <<>>, <<>>)
World == Tok("World", FALSE, <<>>, <<>>, <<>>)

\* C1: for the single segment "Hello" (spaceAfter) "World" (no spaceAfter),
\* processed from cursor 1, the token rows carry [1,6) and [7,12) and the
\* segment row carries [1,12).
C1_HelloWorldRanges ==
  (npairs = 1 /\ segment = <<Hello, World>> /\ pc = "idle")
  => /\ CharRange(TokenLines[1]) = Range(1, 6)
     /\ CharRange(TokenLines[2]) = Range(7, 12)
     /\ CharRange(SegmentLines[1]) = Range(1, 12)

\* C2: every token row's character range has low < high, and of two
\* consecutive tokens of a segment the later one starts after the earlier
\* one's low and not before its high.
C2_TokenRangesNonEmptyIncreasing ==
  /\ \A i \in DOMAIN TokenLines : CharRange(TokenLines[i]).lo < CharRange(TokenLines[i]).hi
  /\ \A i \in DOMAIN TokenLines :
       (i + 1 \in DOMAIN TokenLines /\ SegOf(TokenLines[i]) = SegOf(TokenLines[i + 1]))
       => /\ CharRange(TokenLines[i + 1]).lo > CharRange(TokenLines[i]).lo
          /\ CharRange(TokenLines[i + 1]).lo >= CharRange(TokenLines[i]).hi

\* C8: every character range written for a document row, a segment row or
\* an aligned-entity row is non-empty.
C8_EntityRangesNonEmpty ==
  /\ \A i \in DOMAIN DocumentLines : CharRange(DocumentLines[i]).lo < CharRange(DocumentLines[i]).hi
  /\ \A i \in DOMAIN SegmentLines : CharRange(SegmentLines[i]).lo < CharRange(SegmentLines[i]).hi
  /\ \A i \in DOMAIN AlignedLines : CharRange(AlignedLines[i]).lo < CharRange(AlignedLines[i]).hi

Overlap(r1, r2) == Max(r1.lo, r2.lo) < (IF r1.hi <= r2.hi THEN r1.hi ELSE r2.hi)

SegmentLine(id) == SegmentLines[CHOOSE i \in DOMAIN SegmentLines : SegmentLines[i][1].v = id]

\* C9: a segment row's range is the hull of its tokens' ranges, a document
\* row's range is the hull of the segments consumed while the document was
\* current, and no two segment rows and no two document rows overlap.
C9_RangesAreHulls ==
  /\ \A i \in DOMAIN SegmentLines :
       LET toks == TokenLinesOf(SegmentLines[i][1].v)
           r == CharRange(SegmentLines[i])
       IN  /\ toks # <<>>
           /\ r.lo = CharRange(toks[1]).lo
           /\ r.hi = CharRange(toks[Len(toks)]).hi
  /\ \A i \in DOMAIN DocumentLines :
       LET segs == document_table.segs[i]
           r == CharRange(DocumentLines[i])
       IN  segs # {} =>
             /\ r.lo = CharRange(SegmentLine(CHOOSE x \in segs : \A y \in segs : x <= y)).lo
             /\ r.hi = CharRange(SegmentLine(SetMax(segs))).hi
  /\ \A i, j \in DOMAIN SegmentLines :
       i # j => ~Overlap(CharRange(SegmentLines[i]), CharRange(SegmentLines[j]))
  /\ \A i, j \in DOMAIN DocumentLines :
       i # j => ~Overlap(CharRange(DocumentLines[i]), CharRange(DocumentLines[j]))

\* C9 witness: two document rows, each of a document with a segment, the
\* first segment ending with a token without spaceAfter.
C9_Witness ==
  /\ Len(DocumentLines) = 2
  /\ document_table.segs[1] # {} /\ document_table.segs[2] # {}
  /\ Len(SegmentLines) = 2
  /\ ~token_table.toks[Len(TokenLinesOf(1))].sa
  /\ Len(TokenLinesOf(1)) = 2

\* C10: if no pair carried a document, the run writes exactly one header
\* line and then exactly one document row, with id 1, whose range starts at
\* the cursor's value at the start of the run and ends at the upper bound of
\* the last token consumed.
C10_FallbackDocument ==
  (pc \in {"done", "closed"} /\ current_document = "none")
  => /\ Len(document_table.lines) = 2
     /\ IsHeader(document_table.lines[1])
     /\ ~IsHeader(document_table.lines[2])
     /\ document_table.lines[2][1] = Num(1)
     /\ CharRange(document_table.lines[2]).lo = char_range_start
     /\ TokenLines # <<>> =>
          CharRange(document_table.lines[2]).hi = CharRange(TokenLines[Len(TokenLines)]).hi

\* C10 witness: a finished run of two segments without any document.
C10_Witness ==
  /\ pc = "done" /\ current_document = "none"
  /\ Len(SegmentLines) = 2 /\ Len(TokenLines) = 3

\* The tokens consumed so far carry key k from the i-th to the j-th, and the
\* run is maximal: the tokens before and after it do not carry k.
MaximalRun(i, j, k) ==
  LET toks == token_table.toks
  IN  /\ i <= j
      /\ \A n \in i..j : toks[n].ne = <<k>>
      /\ i = 1 \/ toks[i - 1].ne # <<k>>
      /\ j = Len(toks) \/ toks[j + 1].ne # <<k>>

MaximalRuns ==
  { r \in (DOMAIN token_table.toks) \X (DOMAIN token_table.toks) \X RefKeys :
      MaximalRun(r[1], r[2], r[3]) }

\* C3: with the aligned-entity attribute in the frozen schema, every
\* aligned-entity row is the row of one maximal run of consecutive tokens
\* carrying the same non-placeholder key, from the first token's low to the
\* last token's high (a token without the attribute ends the run), and at
\* the end of the run there is exactly one row per run.  Stated for streams
\* whose tokens all have spaceAfter.
C3_AlignedRowsAreMaximalRuns ==
  ("ne" \in AlignedEntities(kind) /\ InSchema("ne")
   /\ \A n \in DOMAIN token_table.toks : token_table.toks[n].sa)
  => /\ \A i \in DOMAIN AlignedLines :
          \E r \in MaximalRuns :
            /\ aligned_table.keys[i] = r[3]
            /\ CharRange(AlignedLines[i]).lo = CharRange(TokenLines[r[1]]).lo
            /\ CharRange(AlignedLines[i]).hi = CharRange(TokenLines[r[2]]).hi
     /\ pc = "done" => Len(AlignedLines) = Cardinality(MaximalRuns)

DepLines == DataLines(deps_table)

Rooted(toks, id) == Reaches(toks, id, 0, Len(toks))

\* C4: after the run, every buffered token of a rooted tree is written in
\* exactly one row of the dependency table (no relation still holds
\* unwritten entries of a rooted tree), and no token is written twice.
C4_RootedTreesFlushedAtEnd ==
  pc = "done" =>
    /\ \A b \in DOMAIN deps_table.deps :
         LET toks == deps_table.deps[b].toks
         IN  \A n \in DOMAIN toks :
               Rooted(toks, toks[n].id) =>
                 Cardinality({ i \in DOMAIN DepLines :
                                 DepLines[i][2] = Num(toks[n].cursor_id) }) = 1
    /\ \A i, j \in DOMAIN DepLines : i # j => DepLines[i][2] # DepLines[j][2]

\* Bit i of a bitstring, counted from its right end.
BitSet(v, i) == i < Len(v) /\ v[Len(v) - i] = 1

\* C5: after finalization, bit i of a row's bitstring is set if and only if
\* the row's label set contains the label of index i of the vocabulary.
C5_BitIffLabel ==
  pc = "closed" =>
    \A i \in DOMAIN AlignedLines :
      \A n \in DOMAIN AlignedLines[i] :
        AlignedLines[i][n].t = "bits" =>
          \A idx \in 0..(Len(aligned_table.labels) - 1) :
            BitSet(AlignedLines[i][n].v, idx)
            <=> aligned_table.labels[idx + 1] \in SeqSet(FileLabels(aligned_table.keys[i]))

\* C6: after close_upload_files, in a table with a label vocabulary every
\* row's bitstring has the length of the final vocabulary.
C6_BitstringsHaveVocabularyLength ==
  (pc = "closed" /\ aligned_table.labels # <<>>) =>
    \A i \in DOMAIN AlignedLines :
      \A n \in DOMAIN AlignedLines[i] :
        AlignedLines[i][n].t = "bits" =>
          Len(AlignedLines[i][n].v) = Len(aligned_table.labels)

\* C7: every row of the token table has as many fields as the header
\* written when the schema was frozen.
C7_TokenRowsMatchHeader ==
  \A i \in DOMAIN token_table.lines :
    Len(token_table.lines[i]) = Len(token_table.lines[1])

\* The tokens of the first non-empty segment: the segment being processed
\* while no segment row is written, the tokens of segment 1 afterwards.
FirstSegment ==
  IF segment_table.cursor = 1 THEN segment
  ELSE [i \in 1..Len(TokenLinesOf(1)) |-> token_table.toks[i]]

\* The first token of seg on which attribute a is non-null.
FirstSeen(seg, a) ==
  CHOOSE n \in DOMAIN seg :
    NonNull(seg[n], a) /\ \A m \in 1..(n - 1) : ~NonNull(seg[m], a)

\* An attribute written as a plain column of the token table.
PlainColumn(a) == ~IsDependency(a) /\ a \notin AlignedEntities(kind)
ColumnName(a) == Name(IF IsCategorical(a) THEN a ELSE a \o "_id")

\* A value of tok the loop over the schema writes in the token's row: not a
\* Dependency and not the Text key of an aligned entity.
WrittenInRow(tok, a) ==
  ~IsDependency(a) /\ ~(a \in AlignedEntities(kind) /\ IsText(Attr(tok, a)))

\* The fields of a token row before its character range, the id excepted.
AttributeFields(line) ==
  LET r == CHOOSE n \in DOMAIN line : line[n].t = "range" /\ \A m \in 1..(n - 1) : line[m].t # "range"
  IN  SubSeq(line, 2, r - 1)

FtsLines == DataLines(fts_table)

\* The tokens of the segments up to segment id, as consumed.
TokensUpTo(id) ==
  SelectSeq([i \in DOMAIN TokenLines |-> [tok |-> token_table.toks[i], seg |-> SegOf(TokenLines[i])]],
            LAMBDA e : e.seg <= id)

DepLeft(i) == DepLines[i][4].v
DepRight(i) == DepLines[i][5].v
IsChildRow(i, j) == DepLines[i][1].t = "num" /\ DepLines[i][1].v = DepLines[j][2].v

\* Row i is row j or the row of a descendant of row j's token.
RECURSIVE InSubtree(_, _, _)
InSubtree(i, j, fuel) ==
  \/ i = j
  \/ /\ fuel > 0
     /\ \E p \in DOMAIN DepLines : IsChildRow(i, p) /\ InSubtree(p, j, fuel - 1)

SubtreeSize(j) == Cardinality({ i \in DOMAIN DepLines : InSubtree(i, j, Len(DepLines)) })

\* The run consumed, as its first segment, the chain a -> b -> c, and its
\* three rows are written.
ChainWritten ==
  /\ InSchema("head") /\ Len(TokenLinesOf(1)) = 3 /\ Len(DepLines) = 3
  /\ token_table.toks[1].head = <<0>>
  /\ token_table.toks[2].head = <<1>>
  /\ token_table.toks[3].head = <<2>>

Nesting ==
  /\ \A i, j \in DOMAIN DepLines :
       IsChildRow(i, j) => DepLeft(j) < DepLeft(i) /\ DepRight(i) < DepRight(j)
  /\ \A i, j \in DOMAIN DepLines :
       (i # j /\ DepLines[i][1].t = "num" /\ DepLines[j][1].t = "num"
        /\ DepLines[i][1].v = DepLines[j][1].v)
       => (DepRight(i) < DepLeft(j) \/ DepRight(j) < DepLeft(i))

NoDuplicates(seq) == \A i, j \in DOMAIN seq : seq[i] = seq[j] => i = j
FirstIndex(seq, x) == CHOOSE i \in DOMAIN seq : seq[i] = x /\ \A j \in 1..(i - 1) : seq[j] # x

\* The lookup table lk interns the strings of seen, in first-seen order,
\* each once, and ids[i] is the id of seen[i].
Interned(lk, seen, ids) ==
  /\ NoDuplicates(lk)
  /\ SeqSet(lk) = SeqSet(seen)
  /\ \A a, b \in DOMAIN lk : a < b => FirstIndex(seen, lk[a]) < FirstIndex(seen, lk[b])
  /\ \A i \in DOMAIN ids :
       ids[i].t = "num" /\ ids[i].v \in DOMAIN lk /\ lk[ids[i].v] = seen[i]

\* The texts of the text column of the entities opened so far: those of the
\* rows written and that of the entity still open.
EntityTexts ==
  [i \in DOMAIN aligned_table.keys |-> FileText(aligned_table.keys[i])]
  \o (IF Has(aligned_table.current_entity) /\ Val(aligned_table.current_entity).found
      THEN <<FileText(Val(aligned_table.current_entity).id)>> ELSE <<>>)

\* C14: for the form attribute of the tokens and for the text column of an
\* aligned entity, the id written in a row is the position of the row's
\* string in the lookup table; the lookup table holds each string seen
\* exactly once, in first-seen order, so the ids in use after N distinct
\* strings are 1..N and a string already seen adds no row.
C14_LookupIdsFirstSeen ==
  /\ Interned(lookup,
              [i \in DOMAIN token_table.toks |-> token_table.toks[i].form],
              [i \in DOMAIN TokenLines |-> TokenLines[i][2]])
  /\ layout = "text" =>
       Interned(aligned_table.lookup, EntityTexts,
                [i \in DOMAIN AlignedLines |-> AlignedLines[i][2]])

\* C14 witness: three tokens, the third with the form of the first, the
\* second with another form.
C14_Witness ==
  /\ Len(token_table.toks) = 3 /\ Len(lookup) = 2
  /\ token_table.toks[1].form = token_table.toks[3].form
  /\ token_table.toks[2].form # token_table.toks[1].form

\* The values written in the categorical column of the token rows, and in
\* the categorical column of the aligned-entity rows (layout "prefix").
TokenValuesWritten ==
  UNION { { TokenLines[i][n].v : n \in { m \in DOMAIN TokenLines[i] : TokenLines[i][m].t = "cat" } } :
            i \in DOMAIN TokenLines }
EntityValuesWritten ==
  IF layout = "prefix"
  THEN { (IF AlignedLines[i][3].t = "padded" THEN AlignedLines[i][3].f.v ELSE AlignedLines[i][3].v) :
           i \in DOMAIN AlignedLines }
  ELSE {}

\* vals lists the values it held before the run, in their order, then every
\* value observed, each value once, and nothing else.
ValuesUpdated(vals, before, observed) ==
  /\ NoDuplicates(vals)
  /\ SeqSet(vals) = SeqSet(before) \cup observed
  /\ Len(vals) >= Len(before) /\ SubSeq(vals, 1, Len(before)) = before

\* C15: after the run, the values list of the categorical attribute of the
\* token layer (under the name firstClass gives the layer) and that of the
\* aligned-entity layer hold the values they held before, in their order,
\* and every value observed during the run, each once, and no other value.
C15_CategoricalValuesUpdated ==
  pc \in {"done", "closed"} =>
    /\ ValuesUpdated(attr_values.token, InitialValues.token, TokenValuesWritten)
    /\ ValuesUpdated(attr_values.ne, InitialValues.ne, EntityValuesWritten)

\* C16: a step that consumes a token moves the character cursor forward by
\* len(form) + gap, gap being 0 if spaceAfter is false and 1 otherwise, and
\* the range of the token's row starts at the cursor's value before the
\* step; no other step moves the cursor, so the cursor never decreases.
C16_CursorAdvance ==
  [][ /\ char_range_cur' >= char_range_cur
      /\ IF token_table'.cursor # token_table.cursor
         THEN LET tok == segment[tok_i]
                  row == token_table'.lines[Len(token_table'.lines)]
              IN  /\ char_range_cur' =
                       char_range_cur + FormLen[tok.form] + (IF tok.sa THEN 1 ELSE 0)
                  /\ CharRange(row).lo = char_range_cur
         ELSE char_range_cur' = char_range_cur ]_vars

\* C16 witness: "Hello" with spaceAfter, then "World" without, consumed from
\* cursor 1: the cursor has moved by 6 and then by 5.
C16_Witness ==
  /\ token_table.toks = <<Hello, World>>
  /\ char_range_cur = 12

\* C17: a token whose attribute named like an aligned entity is not a Text
\* aborts the run when it is processed: no row of the token table is the row
\* of such a token, so its value is in no column of a token row.
C17_NonTextAlignedKeyAborts ==
  \A i \in DOMAIN token_table.toks :
    "ne" \in AlignedEntities(kind) =>
      ~(Has(token_table.toks[i].ne) /\ ~IsText(token_table.toks[i].ne))

\* The tokens consumed so far that carry a Dependency attribute, per row of
\* the token table: segment, id within the segment, head id, row id.
IdInSegment(i) ==
  Cardinality({ j \in 1..i : SegOf(TokenLines[j]) = SegOf(TokenLines[i]) })

DependencyTokens ==
  SelectSeq([i \in DOMAIN TokenLines |->
               [seg |-> SegOf(TokenLines[i]), id |-> IdInSegment(i),
                has |-> Has(token_table.toks[i].head),
                head_id |-> IF Has(token_table.toks[i].head)
                            THEN Val(token_table.toks[i].head) ELSE 0,
                cursor_id |-> TokenLines[i][1].v]],
            LAMBDA e : e.has)

DependencyTokensOf(s) == SelectSeq(DependencyTokens, LAMBDA e : e.seg = s)

\* Number of rows of the dependency table whose dependent is row id c.
RowsOfDependent(c) == Cardinality({ i \in DOMAIN DepLines : DepLines[i][2] = Num(c) })

SegmentIds == { SegOf(TokenLines[i]) : i \in DOMAIN TokenLines }

\* C18: once a root token has been processed, every token of a tree of the
\* same segment that was complete before that root has its row in the
\* dependency table; and at the end of the run every token of every complete
\* tree of a segment holding two trees is written.
C18_PreviousTreeOfSegmentWritten ==
  InSchema("head") =>
    \A s \in SegmentIds :
      LET es == DependencyTokensOf(s)
      IN  /\ \A r, n \in DOMAIN es :
               (es[r].head_id = 0 /\ n < r /\ Rooted(SubSeq(es, 1, r - 1), es[n].id))
               => RowsOfDependent(es[n].cursor_id) = 1
          /\ (pc = "done" /\ Cardinality({ r \in DOMAIN es : es[r].head_id = 0 }) = 2)
             => \A n \in DOMAIN es : Rooted(es, es[n].id) => RowsOfDependent(es[n].cursor_id) = 1

\* C19: the buffer of a dependency relation holds no consumed entry (once
\* the tree of a segment is written its entries are evicted, also when the
\* segment holds entries the chosen root does not reach); so the buffered
\* entries are entries of tokens not yet written.
C19_ConsumedEntriesEvicted ==
  \A b \in DOMAIN deps_table.deps :
    LET toks == deps_table.deps[b].toks
    IN  \A n \in DOMAIN toks :
          ~toks[n].consumed /\ RowsOfDependent(toks[n].cursor_id) = 0

\* The token of row id c of the token table, among the tokens carrying a
\* Dependency attribute.
DependencyToken(c) ==
  DependencyTokens[CHOOSE n \in DOMAIN DependencyTokens : DependencyTokens[n].cursor_id = c]

\* C20: the dependent of every row of the dependency table is the row id of
\* a token carrying a Dependency attribute, the head of the row is the row id
\* of that token's head token in the same segment (empty for a root), and no
\* token is the dependent of two rows.
C20_RowsCarryTokenRowIds ==
  /\ \A i \in DOMAIN DepLines :
       LET c == DepLines[i][2].v
       IN  /\ \E n \in DOMAIN DependencyTokens : DependencyTokens[n].cursor_id = c
           /\ LET e == DependencyToken(c)
              IN  IF e.head_id = 0 THEN DepLines[i][1] = Str("")
                  ELSE /\ DepLines[i][1].t = "num"
                       /\ \E h \in DOMAIN TokenLines :
                            /\ SegOf(TokenLines[h]) = e.seg
                            /\ IdInSegment(h) = e.head_id
                            /\ DepLines[i][1].v = TokenLines[h][1].v
  /\ \A c \in 1..Len(TokenLines) : RowsOfDependent(c) <= 1

\* C20 witness: the tree of the second segment is written, a root and its
\* dependent, whose row ids differ from their ids within the segment; the
\* first segment was visited by write_token_deps twice.
C20_Witness ==
  /\ Len(SegmentLines) >= 2
  /\ \E i, j \in DOMAIN DepLines :
       /\ DepLines[j][1].t = "num" /\ DepLines[j][1].v = DepLines[i][2].v
       /\ DependencyToken(DepLines[i][2].v).seg = 2
       /\ DependencyToken(DepLines[j][2].v).seg = 2

\* The rows of the roots of the trees written, and the tree a row belongs
\* to: the rows of a tree follow the row of its root.
RootRows == { i \in DOMAIN DepLines : DepLines[i][1].t = "str" }
TreeOf(i) == SetMax({ r \in RootRows : r <= i })
AnchorBefore(r) ==
  IF \E q \in RootRows : q < r
  THEN DepRight(SetMax({ q \in RootRows : q < r })) ELSE 0
RowsOfTree(r) == { i \in DOMAIN DepLines : TreeOf(i) = r }

AnchorsOrdered ==
  /\ \A i \in DOMAIN DepLines : \E r \in RootRows : r <= i
  /\ \A i, j \in DOMAIN DepLines :
       TreeOf(i) < TreeOf(j) =>
         /\ DepLeft(i) < DepLeft(j) /\ DepLeft(i) < DepRight(j)
         /\ DepRight(i) < DepLeft(j) /\ DepRight(i) < DepRight(j)
  /\ \A r \in RootRows :
       DepRight(r) - AnchorBefore(r) = 2 * Cardinality(RowsOfTree(r))
  /\ deps_table.anchor_right =
       (IF RootRows = {} THEN 0 ELSE DepRight(SetMax(RootRows)))

\* C21: the anchors of one dependency relation are ordered by emission.
\* Every row belongs to the tree of a root row; both anchors of a row of a
\* tree written later are strictly greater than both anchors of every row of
\* a tree written earlier, across segments; each tree written moves
\* table.anchor_right by its root's right value (twice its number of nodes),
\* so table.anchor_right is the right anchor of the last root written; and no
\* step decreases table.anchor_right.
C21_AnchorsOrderedByEmission ==
  /\ []AnchorsOrdered
  /\ [][deps_table'.anchor_right >= deps_table.anchor_right]_vars

\* C21 witness: the trees of two segments are written, the second one after
\* the first, and table.anchor_right has moved twice.
C21_Witness ==
  /\ Cardinality(RootRows) = 2
  /\ \E i, j \in DOMAIN DepLines :
       /\ TreeOf(i) < TreeOf(j)
       /\ DependencyToken(DepLines[i][2].v).seg = 1
       /\ DependencyToken(DepLines[j][2].v).seg = 2
  /\ Len(DepLines) >= 3

\* A buffered segment none of whose entries has an empty head id.
Rootless(buf) == \A n \in DOMAIN buf.toks : buf.toks[n].head_id # 0

\* The row ids of the tokens buffered in buf.
CursorIds(buf) == { buf.toks[n].cursor_id : n \in DOMAIN buf.toks }

\* The step processes a token with an empty head id: write_token_deps is
\* called with the segment being processed as working_on.
RootProcessed ==
  /\ pc = "token" /\ InSchema("head")
  /\ segment[tok_i].head = <<0>>

\* The rows the step appends to the dependency table.
NewDepLines ==
  SubSeq(DataLines(deps_table'), Len(DepLines) + 1, Len(DataLines(deps_table')))

\* C22: when a token with an empty head id is processed, a buffered segment
\* other than the one being processed that holds no entry with an empty head
\* id gets no row, stays buffered with its entries as they were, and the run
\* does not abort; table.anchor_right stays where it was unless the tree of
\* another segment is written, and the tree of every other buffered segment
\* with an unwritten root is written in the same step.
C22_RootlessSegmentSkipped ==
  [][ RootProcessed =>
        /\ pc' \in {"token", "segend"}
        /\ \A b \in DOMAIN deps_table.deps :
             LET buf == deps_table.deps[b]
             IN  (buf.seg # segment_table.cursor /\ Rootless(buf)) =>
                   /\ \E c \in DOMAIN deps_table'.deps : deps_table'.deps[c] = buf
                   /\ \A i \in DOMAIN NewDepLines : NewDepLines[i][2].v \notin CursorIds(buf)
        /\ (\A b \in DOMAIN deps_table.deps :
              deps_table.deps[b].seg # segment_table.cursor => Rootless(deps_table.deps[b]))
           => /\ deps_table'.anchor_right = deps_table.anchor_right
              /\ NewDepLines = <<>>
        /\ \A b \in DOMAIN deps_table.deps :
             LET buf == deps_table.deps[b]
             IN  (buf.seg # segment_table.cursor /\ ~Rootless(buf)
                  /\ \A n \in DOMAIN buf.toks : ~buf.toks[n].consumed) =>
                   \E i \in DOMAIN NewDepLines :
                     /\ NewDepLines[i][1].t = "str"
                     /\ NewDepLines[i][2].v \in CursorIds(buf)
    ]_vars

\* C22 witness: the first segment is buffered without a root; the root of
\* the third segment has been processed, the tree of the second segment is
\* written and the first segment is still buffered, with no row.
C22_Witness ==
  /\ Len(DepLines) = 1
  /\ DependencyToken(DepLines[1][2].v).seg = 2
  /\ \E b \in DOMAIN deps_table.deps :
       /\ deps_table.deps[b].seg = 1 /\ Rootless(deps_table.deps[b])
       /\ deps_table.deps[b].toks # <<>>
  /\ \E b \in DOMAIN deps_table.deps : deps_table.deps[b].seg = 3
  /\ pc \in {"token", "segend"}

\* The document table holds one header line, before its rows, and the ids
\* of its rows are 1, 2, 3, ... in the order written; a run that reached
\* the end of the stream has written a row.
DocumentRowsNumbered ==
  /\ Len(HeaderLines(document_table)) = (IF DocumentLines = <<>> THEN 0 ELSE 1)
  /\ DocumentLines # <<>> => IsHeader(document_table.lines[1])
  /\ \A i \in DOMAIN DocumentLines : DocumentLines[i][1] = Num(i)
  /\ pc \in {"done", "closed"} => DocumentLines # <<>>

\* The step appends exactly one row to the document table, the row of a
\* document whose character range starts at low and whose segments are segs.
DocumentRowAppended(low, segs) ==
  LET after == DataLines(document_table')
  IN  /\ Len(after) = Len(DocumentLines) + 1
      /\ SubSeq(after, 1, Len(DocumentLines)) = DocumentLines
      /\ CharRange(after[Len(after)]).lo = low
      /\ document_table'.segs = Append(document_table.segs, segs)

\* What a step does to the document table: a pair whose document differs
\* from the current one writes the row of the document that was current,
\* before any token row of the new document; the end of the stream writes
\* the row of the last document; no other step writes a row.
DocumentStep ==
  IF pc = "idle" /\ npairs' # npairs
  THEN IF doc' # "none" /\ doc' # current_document
       THEN /\ current_document' = doc'
            /\ IF current_document # "none"
               THEN /\ DocumentRowAppended(docs[current_document].char_range_start,
                                           docs[current_document].segs)
                    /\ DataLines(token_table') = TokenLines
               ELSE document_table' = document_table
       ELSE /\ document_table' = document_table
            /\ current_document' = current_document
  ELSE IF pc = "idle" /\ pc' = "done"
  THEN /\ IF current_document = "none"
          THEN DocumentRowAppended(char_range_start, 1..(segment_table.cursor - 1))
          ELSE DocumentRowAppended(docs[current_document].char_range_start,
                                   docs[current_document].segs)
       /\ current_document' = current_document
  ELSE /\ document_table' = document_table
       /\ current_document' = current_document

SegmentRun(i, j) ==
  /\ i <= j
  /\ Has(segment_table.nes[i])
  /\ \A n \in i..j : segment_table.nes[n] = segment_table.nes[i]
  /\ i > 1 => segment_table.nes[i - 1] # segment_table.nes[i]
  /\ j < Len(segment_table.nes) => segment_table.nes[j + 1] # segment_table.nes[i]

SegmentRuns ==
  { p \in (DOMAIN segment_table.nes) \X (DOMAIN segment_table.nes) : SegmentRun(p[1], p[2]) }

\* The r-th run, in the order of the segments.
NthSegmentRun(r) ==
  CHOOSE p \in SegmentRuns :
    Cardinality({ q \in SegmentRuns : q[1] < p[1] }) = r - 1

\* C26: the r-th row of a segment-level aligned entity is the row of the
\* r-th run of segments with the same key; its character range starts at
\* the low bound of the first segment of the run and ends at the high bound
\* of the last segment of the run.
C26_SegmentEntityRangeIsRunHull ==
  "ne" \in AlignedEntitiesSegment(kind) =>
    \A r \in DOMAIN AlignedLines :
      /\ r <= Cardinality(SegmentRuns)
      /\ LET run == NthSegmentRun(r)
         IN  /\ aligned_table.keys[r] = Val(segment_table.nes[run[1]])
             /\ CharRange(AlignedLines[r]).lo = CharRange(SegmentLine(run[1])).lo
             /\ CharRange(AlignedLines[r]).hi = CharRange(SegmentLine(run[2])).hi

\* The keys handed to aligned_entity, in order ("" for a segment without
\* the attribute, which closes the pending entity): at token level the
\* Text values of the tokens' attribute when it is in the frozen schema, at
\* segment level the values of the segments' attribute.
KeysSeen ==
  IF "ne" \in AlignedEntitiesSegment(kind)
  THEN [i \in DOMAIN segment_table.nes |->
          IF Has(segment_table.nes[i]) THEN Val(segment_table.nes[i]) ELSE ""]
  ELSE IF "ne" \in AlignedEntities(kind) /\ InSchema("ne")
  THEN LET ts == SelectSeq(token_table.toks, LAMBDA t : Has(t.ne) /\ IsText(t.ne))
       IN  [i \in DOMAIN ts |-> Val(ts[i].ne)]
  ELSE <<>>

\* The keys of the entities opened, in order: a key of the reference file
\* that differs from the key handed over just before.
OpenedKeys ==
  LET at == { i \in DOMAIN KeysSeen :
                KeysSeen[i] \in RefKeys /\ (i > 1 => KeysSeen[i - 1] # KeysSeen[i]) }
      idx == SelectSeq([i \in DOMAIN KeysSeen |-> i], LAMBDA i : i \in at)
  IN  [n \in DOMAIN idx |-> KeysSeen[idx[n]]]

\* C24: once the end of the stream has been processed, every aligned entity
\* that was opened, at token level or at segment level, with a key of its
\* reference file has exactly one row, in the order of opening, the table's
\* current_entity is empty and the last document row is written.
C24_OpenedEntitiesWrittenAtEnd ==
  (pc \in {"done", "closed"}
   /\ "ne" \in AlignedEntities(kind) \cup AlignedEntitiesSegment(kind)) =>
     /\ aligned_table.keys = OpenedKeys
     /\ aligned_table.current_entity = <<>>
     /\ DocumentLines # <<>>

\* The tokens of the segment of row id, as consumed.
TokensOfSegment(id) ==
  LET idx == SelectSeq([i \in DOMAIN TokenLines |-> i],
                       LAMBDA i : SegOf(TokenLines[i]) = id)
  IN  [n \in DOMAIN idx |-> token_table.toks[idx[n]]]

\* The number of lexemes the attribute a of token tok is to contribute.
LexemesDue(tok, a) ==
  IF ~Has(Attr(tok, a)) THEN 0
  ELSE IF IsDependency(a) THEN 2
  ELSE IF a \in AlignedEntities(kind) THEN 0
  ELSE 1

\* C25: the FTS builder never fails.  Every segment row has its FTS row,
\* (segment id, vector), no run ends in a KeyError at the end of a segment,
\* and for the token at position n of the segment and each attribute of the
\* frozen schema the vector holds, at position n, two lexemes for a
\* Dependency, one for a Categorical or Text that is not an aligned entity,
\* and none otherwise, also when the token does not carry the attribute.
C25_FtsNeverFails ==
  /\ Len(FtsLines) = Len(SegmentLines)
  /\ \A i \in DOMAIN FtsLines :
       /\ Len(FtsLines[i]) = 2
       /\ FtsLines[i][1] = SegmentLines[i][1]
       /\ LET toks == TokensOfSegment(FtsLines[i][1].v)
              vector == FtsLines[i][2].v
          IN  \A n \in DOMAIN toks :
                \A a \in SeqSet(token_table.non_null_attributes) :
                  Cardinality({ x \in DOMAIN vector :
                                  vector[x].pos = n /\ vector[x].attr = a })
                  = LexemesDue(toks[n], a)

\* The frame range of a line that has one: its second range field.
HasFrameRange(line) == Len(RangeFields(line)) = 2
FrameRange(line) == RangeFields(line)[2]

\* C27: in a time-anchored run the frame ranges of two consecutive document
\* rows do not overlap, and the frame range of every token row lies inside
\* the frame range of the row of its document.
C27_DocumentFramesDisjoint ==
  /\ \A i \in DOMAIN DocumentLines :
       (i < Len(DocumentLines)
        /\ HasFrameRange(DocumentLines[i]) /\ HasFrameRange(DocumentLines[i + 1]))
       => ~Overlap(FrameRange(DocumentLines[i]), FrameRange(DocumentLines[i + 1]))
  /\ \A i \in DOMAIN DocumentLines :
       \A t \in DOMAIN TokenLines :
         (SegOf(TokenLines[t]) \in document_table.segs[i]
          /\ HasFrameRange(TokenLines[t]) /\ HasFrameRange(DocumentLines[i]))
         => /\ FrameRange(DocumentLines[i]).lo <= FrameRange(TokenLines[t]).lo
            /\ FrameRange(TokenLines[t]).hi <= FrameRange(DocumentLines[i]).hi

\* C28: once a token carrying a frame range has switched frame tracking on,
\* the run does not fail at the end of a segment: every segment whose tokens
\* are consumed gets its row, and every segment row written after a row with
\* a frame range has a non-empty frame range too.
C28_FramedSegmentsNeverFail ==
  /\ pc # "TypeError"
  /\ \A i, j \in DOMAIN SegmentLines :
       (i <= j /\ HasFrameRange(SegmentLines[i])) =>
         /\ HasFrameRange(SegmentLines[j])
         /\ FrameRange(SegmentLines[j]).lo < FrameRange(SegmentLines[j]).hi

\* Field n of a line of the aligned-entity table is the cell of a
\* labels-typed column.
LabelsColumn(n) ==
  /\ n - 1 \in DOMAIN FileCols(layout)
  /\ TypeOf(layout, FileCols(layout)[n - 1]) = "labels"

\* Field g is field f left-padded with "0".
LeftPadded(f, g) ==
  /\ f.t = "bits" /\ g.t = "bits"
  /\ Len(g.v) >= Len(f.v)
  /\ g.v = Zeros(Len(g.v) - Len(f.v)) \o f.v

\* C29: the rewrite of the aligned-entity table by close_upload_files keeps
\* the number and the order of the lines, leaves the header line as it was,
\* and changes no field but those of labels-typed columns, which are only
\* left-padded with "0"; whatever the layout of the layer's attributes.
C29_RewriteOnlyPadsLabels ==
  [][ pc = "done" =>
        /\ Len(aligned_table'.lines) = Len(aligned_table.lines)
        /\ \A i \in DOMAIN aligned_table.lines :
             LET old == aligned_table.lines[i]
                 new == aligned_table'.lines[i]
             IN  /\ Len(new) = Len(old)
                 /\ IsHeader(old) => new = old
                 /\ \A n \in DOMAIN old :
                      IF ~IsHeader(old) /\ LabelsColumn(n)
                      THEN LeftPadded(old[n], new[n])
                      ELSE new[n] = old[n]
    ]_vars

====
